---- MODULE Spec2Model ----
(***************************************************************************)
(* License lookup and normalization engine of the license verification bot *)
(* (src/scrapers, src/cogs): the Result value, the match selection of      *)
(* /verify, the scraper registry, the four source adapters and the two     *)
(* consumer flows.  Text is modelled as a sequence of one-character        *)
(* strings so that lower(), upper(), strip() and substring tests are       *)
(* computed, not assumed.                                                  *)
(***************************************************************************)
EXTENDS Integers, Sequences, FiniteSets, TLC

VARIABLES
    scrapers,      \* the adapter instances constructed so far, by reference
    sessions,      \* the aiohttp sessions created so far, by reference
    scraper_map,   \* registry._SCRAPER_MAP, the module-level dict
    reg_calls,     \* registry: the get_scraper calls made, argument and return
    lk_world,      \* lookup: what the remote source answers
    lk_ref,        \* lookup: the adapter under test
    lk_kind,       \* lookup: the kind of the last lookup, "" before it
    lk_out,        \* lookup: what the last lookup handed back
    lk_calls,      \* lookup: number of lookups made on the adapter
    lk_trace,      \* lookup: the calls made on the adapter, in order
    db,            \* onboarding_agents: discord id -> row, or NoRow
    checks,        \* license_checks: the rows logged, in order
    dms,           \* discord ids the sweep tried to DM an alert to, in order
    sms,           \* SMS send attempts, in order
    roles,         \* discord ids given the Licensed Agent role
    sw_pc,         \* sweep: where check_loop stands
    sw_agents,     \* sweep: the batch get_licensed_agents returned
    sw_i,          \* sweep: index in the batch of the agent being checked
    sw_ref,        \* sweep: the adapter _check_one holds, 0 for none
    sw_out,        \* sweep: what the lookup handed back
    sw_count,      \* sweep: the counters checked, alerts, errors
    sw_log,        \* sweep: per agent checked, how _check_one ended
    sw_summary,    \* sweep: the arguments _post_summary was called with
    vf,            \* /verify: per user, the state of the invocation
    sel_results,   \* selection: the Result sequence handed to the selection
    sel_match,     \* selection: index of the chosen Result, 0 for None
    sel_done       \* selection: the selection has run

heap_vars == <<scrapers, sessions, scraper_map>>

reg_vars == <<reg_calls>>

lk_vars == <<lk_world, lk_ref, lk_kind, lk_out, lk_calls, lk_trace>>

sel_vars == <<sel_results, sel_match, sel_done>>

store_vars == <<db, checks, dms, sms, roles>>

sw_vars == <<sw_pc, sw_agents, sw_i, sw_ref, sw_out, sw_count, sw_log, sw_summary>>

vf_vars == <<vf>>

flow_vars == <<store_vars, sw_vars, vf_vars>>

----------------------------------------------------------------------------
(* Text helpers: str.lower, str.upper, str.strip, `in`.                    *)

UpperChars == <<"A","B","C","D","E","F","G","H","I","J","K","L","M",
                "N","O","P","Q","R","S","T","U","V","W","X","Y","Z">>

LowerChars == <<"a","b","c","d","e","f","g","h","i","j","k","l","m",
                "n","o","p","q","r","s","t","u","v","w","x","y","z">>

LowerChar(c) ==
    IF \E i \in DOMAIN UpperChars : UpperChars[i] = c
    THEN LowerChars[CHOOSE i \in DOMAIN UpperChars : UpperChars[i] = c]
    ELSE c

UpperChar(c) ==
    IF \E i \in DOMAIN LowerChars : LowerChars[i] = c
    THEN UpperChars[CHOOSE i \in DOMAIN LowerChars : LowerChars[i] = c]
    ELSE c

Lower(s) == [i \in DOMAIN s |-> LowerChar(s[i])]

Upper(s) == [i \in DOMAIN s |-> UpperChar(s[i])]

IsSpace(c) == c = " "

RECURSIVE LStrip(_)
LStrip(s) == IF s /= <<>> /\ IsSpace(Head(s)) THEN LStrip(Tail(s)) ELSE s

RECURSIVE RStrip(_)
RStrip(s) ==
    IF s /= <<>> /\ IsSpace(s[Len(s)])
    THEN RStrip(SubSeq(s, 1, Len(s) - 1))
    ELSE s

Strip(s) == RStrip(LStrip(s))

\* Python's `sub in s` for strings.
Contains(s, sub) ==
    \E i \in 0..(Len(s) - Len(sub)) : SubSeq(s, i + 1, i + Len(sub)) = sub

----------------------------------------------------------------------------
(* LicenseResult (src/scrapers/base.py).  error is None or a message; an   *)
(* exception whose str() is empty gives the message "".                    *)

None == "None"

\* Python truthiness of Optional[str].
Truthy(e) == e /= None /\ e /= ""

\* The dataclass defaults, with the keyword arguments the adapters pass.
LicenseResult(found, active, state, license_type, status, error) ==
    [found |-> found, active |-> active, state |-> state,
     license_type |-> license_type, status |-> status, error |-> error]

NotFoundResult == LicenseResult(FALSE, FALSE, <<>>, <<>>, <<>>, None)

ErrorResult(msg) == LicenseResult(FALSE, FALSE, <<>>, <<>>, <<>>, msg)

life_keywords ==
    << <<"l","i","f","e">>,
       <<"l","i","f","e"," ","&"," ","a","n","n","u","i","t","y">>,
       <<"l","i","f","e"," ","a","n","d"," ","a","n","n","u","i","t","y">>,
       <<"l","i","f","e","/","a","n","n","u","i","t","y">> >>

is_life_licensed(r) ==
    LET lic_type == Lower(r.license_type)
    IN  (\E k \in DOMAIN life_keywords : Contains(lic_type, life_keywords[k]))
        /\ r.active

----------------------------------------------------------------------------
(* Match selection of /verify (src/cogs/verify.py:79-90).                  *)

\* First index of seq satisfying P, 0 when there is none (a for loop with break).
FirstIndex(seq, P(_)) ==
    IF \E i \in DOMAIN seq : P(seq[i])
    THEN CHOOSE i \in DOMAIN seq :
            P(seq[i]) /\ \A j \in 1..(i - 1) : ~P(seq[j])
    ELSE 0

FirstPassPick(r) ==
    r.found /\ r.active /\ (is_life_licensed(r) \/ r.license_type = <<>>)

\* A variant of the second pass that takes any found record.
SecondPassPick_AnyFound(r) == r.found

SecondPassPick(r) == r.found /\ r.active

\* A selection made of the first pass alone.
FindBestMatch_FirstPassOnly(results) == FirstIndex(results, FirstPassPick)

\* Index of `match` in results; 0 is None.
FindBestMatch(results) ==
    LET first == FirstIndex(results, FirstPassPick)
    IN  IF first /= 0 THEN first ELSE FirstIndex(results, SecondPassPick)

----------------------------------------------------------------------------
(* Texts the sources put in their pages.                                   *)

X == <<"x">>                                   \* a cell whose text is not read

sACTIVE == <<"A","C","T","I","V","E">>
sValid == <<"V","a","l","i","d">>
sCurrent == <<"c","u","r","r","e","n","t">>
sRevoked == <<"R","e","v","o","k","e","d">>
sExpired == <<"E","x","p","i","r","e","d">>
sInactive == <<"I","n","a","c","t","i","v","e">>
sNY == <<"N","Y">>
sGA == <<"G","A">>

tLifeAnnuity == <<"L","i","f","e"," ","&"," ","A","n","n","u","i","t","y">>
tHealth == <<"H","e","a","l","t","h">>

hValidLicenses == <<"V","a","l","i","d"," ","L","i","c","e","n","s","e","s">>
hInvalidLicenses ==
    <<"I","n","v","a","l","i","d"," ","L","i","c","e","n","s","e","s">>

kValidLicense == <<"v","a","l","i","d"," ","l","i","c","e","n","s","e">>
kInvalidLicense ==
    <<"i","n","v","a","l","i","d"," ","l","i","c","e","n","s","e">>

sVALID == <<"V","A","L","I","D">>
sINVALID == <<"I","N","V","A","L","I","D">>
sUnknown == <<"U","n","k","n","o","w","n">>
sFoundInNAIC == <<"F","o","u","n","d"," ","i","n"," ","N","A","I","C">>

kActive == <<"a","c","t","i","v","e">>
kValid == <<"v","a","l","i","d">>
kCurrent == <<"c","u","r","r","e","n","t">>
kLife == <<"l","i","f","e">>
kHealth == <<"h","e","a","l","t","h">>

FL == <<"F","L">>
CA == <<"C","A">>
TX == <<"T","X">>

IsLetter(c) ==
    \/ \E i \in DOMAIN UpperChars : UpperChars[i] = c
    \/ \E i \in DOMAIN LowerChars : LowerChars[i] = c

\* str.title(): a letter after a non-letter is upper-cased, any other lowered.
Title(s) ==
    [i \in DOMAIN s |->
        IF i = 1 \/ ~IsLetter(s[i - 1]) THEN UpperChar(s[i]) ELSE LowerChar(s[i])]

----------------------------------------------------------------------------
(* What an adapter's lookup hands back to the model: the Result sequence,  *)
(* the requests it issued in order, whether it asked for its session, and  *)
(* whether an exception left the lookup.                                   *)

Outcome(results, requests, session_used, raised) ==
    [results |-> results, requests |-> requests,
     session_used |-> session_used, raised |-> raised]

\* f"HTTP {resp.status}"
HttpError(status) ==
    CASE status = 500 -> "HTTP 500"
      [] status = 404 -> "HTTP 404"
      [] OTHER -> "HTTP"

\* f"HTTP {resp.status} on GET" / "... on POST" of the Florida adapter.
HttpErrorOn(status, method) ==
    CASE status = 500 /\ method = "GET" -> "HTTP 500 on GET"
      [] status = 500 /\ method = "POST" -> "HTTP 500 on POST"
      [] status = 404 /\ method = "GET" -> "HTTP 404 on GET"
      [] status = 404 /\ method = "POST" -> "HTTP 404 on POST"
      [] OTHER -> "HTTP"

\* A response is read in two steps: the request itself (client raises, or a
\* status arrives) and `await resp.text()` plus BeautifulSoup on the body.
NoPage == [none |-> TRUE]

RaiseResp(exc) == [kind |-> "raise", status |-> 0, exc |-> exc, page |-> NoPage]

StatusResp(status) ==
    [kind |-> "status", status |-> status, exc |-> "", page |-> NoPage]

BadBodyResp(exc) ==
    [kind |-> "badbody", status |-> 200, exc |-> exc, page |-> NoPage]

PageResp(page) == [kind |-> "page", status |-> 200, exc |-> "", page |-> page]

Raises(resp) == resp.kind = "raise"

\* resp.status != 200
BadStatus(resp) == resp.status /= 200

BadBody(resp) == resp.kind = "badbody"

----------------------------------------------------------------------------
(* California (src/scrapers/california.py).  A page holds a not-found      *)
(* phrase or not, and a sequence of tables; a table is known by id/class   *)
(* or not, and holds its <tr> rows, the header first; a row is the         *)
(* sequence of its <td> texts.                                             *)

\* soup.find("table", {"id": "gridResult"}) or soup.find("table", class_="table")
FirstKnownTable(page) ==
    FirstIndex(page.tables, LAMBDA t : t.known)

HasRow(t) == t.rows /= <<>>

\* rows[1:]
DataRows(table) == IF table.rows = <<>> THEN <<>> ELSE Tail(table.rows)

CaliforniaRow(cells) ==
    LET status_text == IF Len(cells) > 2 THEN Lower(Strip(cells[3])) ELSE <<>>
    IN  LicenseResult(TRUE,
                      Contains(status_text, kActive) \/ Contains(status_text, kValid),
                      CA,
                      IF Len(cells) > 3 THEN Strip(cells[4]) ELSE <<>>,
                      Title(status_text),
                      None)

RECURSIVE CaliforniaRows(_)
CaliforniaRows(rows) ==
    IF rows = <<>> THEN <<>>
    ELSE IF Len(Head(rows)) < 2 THEN CaliforniaRows(Tail(rows))
    ELSE <<CaliforniaRow(Head(rows))>> \o CaliforniaRows(Tail(rows))

\* The parse without its closing not-found sentinel.
CaliforniaParse_NoSentinel(page) ==
    LET known == FirstKnownTable(page)
        alt == FirstIndex(page.tables, HasRow)
        table == IF known /= 0 THEN known
                 ELSE IF page.phrase THEN 0
                 ELSE alt
    IN  IF table = 0 THEN <<NotFoundResult>>
        ELSE CaliforniaRows(DataRows(page.tables[table]))

CaliforniaParse(page) ==
    LET known == FirstKnownTable(page)
        alt == FirstIndex(page.tables, HasRow)
        table == IF known /= 0 THEN known
                 ELSE IF page.phrase THEN 0
                 ELSE alt
        results == IF table = 0 THEN <<>>
                   ELSE CaliforniaRows(DataRows(page.tables[table]))
    IN  IF table = 0 THEN <<NotFoundResult>>
        ELSE IF results /= <<>> THEN results
        ELSE <<NotFoundResult>>

\* One POST and the parse, inside one try/except Exception.
CaliforniaPost(world) ==
    LET resp == world.post
    IN  IF Raises(resp)
        THEN Outcome(<<ErrorResult(resp.exc)>>, <<"POST">>, TRUE, FALSE)
        ELSE IF BadStatus(resp)
        THEN Outcome(<<ErrorResult(HttpError(resp.status))>>, <<"POST">>, TRUE, FALSE)
        ELSE IF BadBody(resp)
        THEN Outcome(<<ErrorResult(resp.exc)>>, <<"POST">>, TRUE, FALSE)
        ELSE Outcome(CaliforniaParse(resp.page), <<"POST">>, TRUE, FALSE)

California_lookup_by_name(world) == CaliforniaPost(world)

California_lookup_by_license_number(world) == CaliforniaPost(world)

California_lookup_by_npn(world) ==
    Outcome(<<ErrorResult("CA does not support NPN lookup")>>, <<>>, FALSE, FALSE)

----------------------------------------------------------------------------
(* Texas (src/scrapers/texas.py).                                          *)

TexasRow(cells) ==
    LET status_text == IF Len(cells) > 2 THEN Lower(Strip(cells[3])) ELSE <<>>
    IN  LicenseResult(TRUE,
                      IF Len(cells) > 2
                      THEN Contains(status_text, kActive)
                           \/ Contains(status_text, kCurrent)
                      ELSE FALSE,
                      TX,
                      IF Len(cells) > 3 THEN Strip(cells[4]) ELSE <<>>,
                      Title(status_text),
                      None)

RECURSIVE TexasRows(_)
TexasRows(rows) ==
    IF rows = <<>> THEN <<>>
    ELSE IF Len(Head(rows)) < 2 THEN TexasRows(Tail(rows))
    ELSE <<TexasRow(Head(rows))>> \o TexasRows(Tail(rows))

\* soup.find("table", class_="resultsTable") or soup.find("table")
KnownOrFirstTable(page) ==
    LET known == FirstKnownTable(page)
    IN  IF known /= 0 THEN known
        ELSE IF page.tables /= <<>> THEN 1 ELSE 0

TexasParse(page) ==
    LET table == KnownOrFirstTable(page)
        results == IF table = 0 THEN <<>>
                   ELSE TexasRows(DataRows(page.tables[table]))
    IN  IF table = 0 THEN <<NotFoundResult>>
        ELSE IF results /= <<>> THEN results
        ELSE <<NotFoundResult>>

TexasPost(world) ==
    LET resp == world.post
    IN  IF Raises(resp)
        THEN Outcome(<<ErrorResult(resp.exc)>>, <<"POST">>, TRUE, FALSE)
        ELSE IF BadStatus(resp)
        THEN Outcome(<<ErrorResult(HttpError(resp.status))>>, <<"POST">>, TRUE, FALSE)
        ELSE IF BadBody(resp)
        THEN Outcome(<<ErrorResult(resp.exc)>>, <<"POST">>, TRUE, FALSE)
        ELSE Outcome(TexasParse(resp.page), <<"POST">>, TRUE, FALSE)

Texas_lookup_by_name(world) == TexasPost(world)

Texas_lookup_by_license_number(world) == TexasPost(world)

\* An NPN lookup that posts the search form like the other two.
Texas_lookup_by_npn_Posted(world) == TexasPost(world)

Texas_lookup_by_npn(world) ==
    Outcome(<<ErrorResult("TX does not support NPN lookup")>>, <<>>, FALSE, FALSE)

----------------------------------------------------------------------------
(* NAIC SOLAR fallback (src/scrapers/naic.py).                             *)

\* A row taken as found but not yet confirmed active.
NAICRow_Unconfirmed(cells, state_code) ==
    LicenseResult(TRUE,
                  FALSE,
                  IF Len(cells) > 2 THEN Strip(cells[3]) ELSE state_code,
                  <<>>,
                  sFoundInNAIC,
                  None)

NAICRow(cells, state_code) ==
    LicenseResult(TRUE,
                  TRUE,
                  IF Len(cells) > 2 THEN Strip(cells[3]) ELSE state_code,
                  <<>>,
                  sFoundInNAIC,
                  None)

RECURSIVE NAICRows(_, _)
NAICRows(rows, state_code) ==
    IF rows = <<>> THEN <<>>
    ELSE IF Len(Head(rows)) < 3 THEN NAICRows(Tail(rows), state_code)
    ELSE <<NAICRow(Head(rows), state_code)>> \o NAICRows(Tail(rows), state_code)

NAICParse(page, state_code) ==
    LET table == KnownOrFirstTable(page)
        results == IF table = 0 THEN <<>>
                   ELSE NAICRows(DataRows(page.tables[table]), state_code)
    IN  IF table = 0 THEN <<NotFoundResult>>
        ELSE IF Len(page.tables[table].rows) < 2 THEN <<NotFoundResult>>
        ELSE IF results /= <<>> THEN results
        ELSE <<NotFoundResult>>

\* GET for the cookies, then POST, then the parse, inside one try/except.
NAIC_lookup_by_name(state_code, world) ==
    LET get == world.get
        resp == world.post
    IN  IF Raises(get)
        THEN Outcome(<<ErrorResult(get.exc)>>, <<"GET">>, TRUE, FALSE)
        ELSE IF BadStatus(get)
        THEN Outcome(<<ErrorResult(HttpError(get.status))>>, <<"GET">>, TRUE, FALSE)
        ELSE IF Raises(resp)
        THEN Outcome(<<ErrorResult(resp.exc)>>, <<"GET", "POST">>, TRUE, FALSE)
        ELSE IF BadStatus(resp)
        THEN Outcome(<<ErrorResult(HttpError(resp.status))>>,
                     <<"GET", "POST">>, TRUE, FALSE)
        ELSE IF BadBody(resp)
        THEN Outcome(<<ErrorResult(resp.exc)>>, <<"GET", "POST">>, TRUE, FALSE)
        ELSE Outcome(NAICParse(resp.page, state_code),
                     <<"GET", "POST">>, TRUE, FALSE)

NAIC_lookup_by_npn(state_code, world) ==
    Outcome(<<ErrorResult("Use name search for NAIC")>>, <<>>, FALSE, FALSE)

NAIC_lookup_by_license_number(state_code, world) ==
    Outcome(<<ErrorResult("Use name search for NAIC")>>, <<>>, FALSE, FALSE)

----------------------------------------------------------------------------
(* Florida (src/scrapers/florida.py).  The summary page holds a not-found  *)
(* phrase or not, a table.table with a tbody or not, and the tbody's rows; *)
(* a row has a number of cells, a detail link in its first cell or not,    *)
(* and behind the link the response of the detail page.  A detail page is  *)
(* a sequence of panels, each a heading and the rows of its table.         *)

MaxDetailFetch == 5

\* The dict _fetch_detail returns: "status" and "type" are set only when a
\* license was chosen; on failure the dict holds "error" alone.
DetailDict(has_status, status, type, error) ==
    [has_status |-> has_status, status |-> status, type |-> type, error |-> error]

\* The entries of the panels' rows that have two cells or more, in page
\* order, tagged by the heading test of lines 289-294.
RECURSIVE PanelEntries(_, _)
PanelEntries(heading_text, rows) ==
    IF rows = <<>> THEN <<>>
    ELSE IF Len(Head(rows)) >= 2
    THEN (IF Contains(heading_text, kValidLicense)
          THEN <<[type |-> Strip(Head(rows)[1]), status |-> sVALID]>>
          ELSE IF Contains(heading_text, kInvalidLicense)
          THEN <<[type |-> Strip(Head(rows)[1]), status |-> sINVALID]>>
          ELSE <<>>)
         \o PanelEntries(heading_text, Tail(rows))
    ELSE PanelEntries(heading_text, Tail(rows))

RECURSIVE LicenseEntries(_)
LicenseEntries(panels) ==
    IF panels = <<>> THEN <<>>
    ELSE PanelEntries(Lower(Strip(Head(panels).heading)), Head(panels).rows)
         \o LicenseEntries(Tail(panels))

valid_licenses(panels) ==
    SelectSeq(LicenseEntries(panels), LAMBDA e : e.status = sVALID)

invalid_licenses(panels) ==
    SelectSeq(LicenseEntries(panels), LAMBDA e : e.status = sINVALID)

IsLifeOrHealth(lic) ==
    Contains(Lower(lic.type), kLife) \/ Contains(Lower(lic.type), kHealth)

fetch_detail(resp) ==
    IF Raises(resp) THEN DetailDict(FALSE, <<>>, <<>>, resp.exc)
    ELSE IF BadStatus(resp) THEN DetailDict(FALSE, <<>>, <<>>, HttpError(resp.status))
    ELSE IF BadBody(resp) THEN DetailDict(FALSE, <<>>, <<>>, resp.exc)
    ELSE LET valid == valid_licenses(resp.page.panels)
             invalid == invalid_licenses(resp.page.panels)
             pick == FirstIndex(valid, IsLifeOrHealth)
         IN  IF pick /= 0
             THEN DetailDict(TRUE, valid[pick].status, valid[pick].type, None)
             ELSE IF valid /= <<>>
             THEN DetailDict(TRUE, valid[1].status, valid[1].type, None)
             ELSE IF invalid /= <<>>
             THEN DetailDict(TRUE, invalid[1].status, invalid[1].type, None)
             ELSE DetailDict(FALSE, <<>>, <<>>, None)

FloridaRow(detail) ==
    LicenseResult(TRUE,
                  Upper(IF detail.has_status THEN detail.status ELSE <<>>) = sVALID,
                  FL,
                  IF detail.has_status THEN detail.type ELSE <<>>,
                  IF detail.has_status THEN detail.status ELSE sUnknown,
                  None)

\* A loop that fetches the detail page of every linked row.
RECURSIVE FloridaRows_Uncapped(_, _)
FloridaRows_Uncapped(rows, done) ==
    IF rows = <<>> THEN done
    ELSE IF Head(rows).ncells < 2 THEN FloridaRows_Uncapped(Tail(rows), done)
    ELSE IF ~Head(rows).link THEN FloridaRows_Uncapped(Tail(rows), done)
    ELSE FloridaRows_Uncapped(Tail(rows),
                              Append(done, FloridaRow(fetch_detail(Head(rows).detail))))

\* The loop of _parse_search_results: `done` are the Results so far.
RECURSIVE FloridaRows(_, _)
FloridaRows(rows, done) ==
    IF rows = <<>> THEN done
    ELSE IF Head(rows).ncells < 2 THEN FloridaRows(Tail(rows), done)
    ELSE IF ~Head(rows).link THEN FloridaRows(Tail(rows), done)
    ELSE LET results == Append(done, FloridaRow(fetch_detail(Head(rows).detail)))
         IN  IF Len(results) >= MaxDetailFetch THEN results
             ELSE FloridaRows(Tail(rows), results)

FloridaParse(page) ==
    IF page.phrase THEN <<NotFoundResult>>
    ELSE IF ~page.table THEN <<NotFoundResult>>
    ELSE IF ~page.tbody THEN <<NotFoundResult>>
    ELSE LET results == FloridaRows(page.rows, <<>>)
         IN  IF results = <<>> THEN <<NotFoundResult>> ELSE results

\* One "GET detail" per Result the parse produced.
DetailRequests(page) ==
    IF page.phrase \/ ~page.table \/ ~page.tbody THEN <<>>
    ELSE [i \in 1..Len(FloridaRows(page.rows, <<>>)) |-> "GET detail"]

\* A search that posts the form whatever the landing page answered.
Florida_search_Unchecked(world) ==
    LET get == world.get
        resp == world.post
    IN  IF Raises(get)
        THEN Outcome(<<ErrorResult(get.exc)>>, <<"GET">>, TRUE, FALSE)
        ELSE IF Raises(resp)
        THEN Outcome(<<ErrorResult(resp.exc)>>, <<"GET", "POST">>, TRUE, FALSE)
        ELSE IF BadStatus(resp)
        THEN Outcome(<<ErrorResult(HttpErrorOn(resp.status, "POST"))>>,
                     <<"GET", "POST">>, TRUE, FALSE)
        ELSE IF BadBody(resp)
        THEN Outcome(<<ErrorResult(resp.exc)>>, <<"GET", "POST">>, TRUE, FALSE)
        ELSE Outcome(FloridaParse(resp.page),
                     <<"GET", "POST">> \o DetailRequests(resp.page), TRUE, FALSE)

Florida_search(world) ==
    LET get == world.get
        resp == world.post
    IN  IF Raises(get)
        THEN Outcome(<<ErrorResult(get.exc)>>, <<"GET">>, TRUE, FALSE)
        ELSE IF BadStatus(get)
        THEN Outcome(<<ErrorResult(HttpErrorOn(get.status, "GET"))>>,
                     <<"GET">>, TRUE, FALSE)
        ELSE IF Raises(resp)
        THEN Outcome(<<ErrorResult(resp.exc)>>, <<"GET", "POST">>, TRUE, FALSE)
        ELSE IF BadStatus(resp)
        THEN Outcome(<<ErrorResult(HttpErrorOn(resp.status, "POST"))>>,
                     <<"GET", "POST">>, TRUE, FALSE)
        ELSE IF BadBody(resp)
        THEN Outcome(<<ErrorResult(resp.exc)>>, <<"GET", "POST">>, TRUE, FALSE)
        ELSE Outcome(FloridaParse(resp.page),
                     <<"GET", "POST">> \o DetailRequests(resp.page), TRUE, FALSE)

Florida_lookup_by_name(world) == Florida_search(world)

Florida_lookup_by_npn(world) == Florida_search(world)

Florida_lookup_by_license_number(world) == Florida_search(world)

----------------------------------------------------------------------------
(* Adapter instances and their sessions.  An instance is its class, the    *)
(* _state_code of the NAIC fallback and _session, 0 for None.              *)

Instance(cls, state_code) == [cls |-> cls, state_code |-> state_code, session |-> 0]

\* Calling a class: a new object, referred to by its place in the heap.
Construct(heap, inst) == [heap |-> Append(heap, inst), ref |-> Len(heap) + 1]

\* A _get_session that hands out one client session to every adapter.
get_session_Shared(scr, sess, ref) ==
    IF \E x \in DOMAIN sess : ~sess[x].closed
    THEN [scrapers |-> [scr EXCEPT ![ref].session =
                            CHOOSE x \in DOMAIN sess : ~sess[x].closed],
          sessions |-> sess]
    ELSE [scrapers |-> [scr EXCEPT ![ref].session = Len(sess) + 1],
          sessions |-> Append(sess, [closed |-> FALSE, owner |-> ref,
                                     teardowns |-> 0])]

\* _get_session of every adapter: a new ClientSession when there is none or
\* it is closed.  Returns the instances and sessions afterwards.
get_session(scr, sess, ref) ==
    IF scr[ref].session = 0 \/ sess[scr[ref].session].closed
    THEN [scrapers |-> [scr EXCEPT ![ref].session = Len(sess) + 1],
          sessions |-> Append(sess, [closed |-> FALSE, owner |-> ref,
                                     teardowns |-> 0])]
    ELSE [scrapers |-> scr, sessions |-> sess]

\* A close() that leaves the session as it is.
close_Leaky(scr, sess, ref) == sess

\* A close() that does not ask whether the session is closed already.
close_Unguarded(scr, sess, ref) ==
    IF scr[ref].session /= 0
    THEN [sess EXCEPT ![scr[ref].session].closed = TRUE,
                      ![scr[ref].session].teardowns = @ + 1]
    ELSE sess

\* close() of every adapter; returns the sessions afterwards.  teardowns
\* counts the `await self._session.close()` made on a session.
close(scr, sess, ref) ==
    IF scr[ref].session /= 0 /\ ~sess[scr[ref].session].closed
    THEN [sess EXCEPT ![scr[ref].session].closed = TRUE,
                      ![scr[ref].session].teardowns = @ + 1]
    ELSE sess

----------------------------------------------------------------------------
(* Registry (src/scrapers/registry.py).                                    *)

SCRAPER_MAP ==
    [k \in {FL, CA, TX} |->
        CASE k = FL -> "FloridaScraper"
          [] k = CA -> "CaliforniaScraper"
          [] k = TX -> "TexasScraper"]

\* A variant that hands out a live instance of the class again when it has one.
get_scraper_pooled(heap, map, state_code) ==
    LET code == Strip(Upper(state_code))
        cls == IF code \in DOMAIN map THEN map[code] ELSE "NAICScraper"
        have == FirstIndex(heap, LAMBDA i : i.cls = cls)
    IN  IF have /= 0 /\ code \in DOMAIN map
        THEN [heap |-> heap, ref |-> have]
        ELSE Construct(heap, Instance(cls, IF code \in DOMAIN map THEN <<>> ELSE code))

\* A variant that passes the caller's code on as it came.
get_scraper_raw(heap, map, state_code) ==
    LET code == Strip(Upper(state_code))
    IN  IF code \in DOMAIN map
        THEN Construct(heap, Instance(map[code], <<>>))
        ELSE Construct(heap, Instance("NAICScraper", state_code))

get_scraper(heap, map, state_code) ==
    LET code == Strip(Upper(state_code))
    IN  IF code \in DOMAIN map
        THEN Construct(heap, Instance(map[code], <<>>))
        ELSE Construct(heap, Instance("NAICScraper", code))

----------------------------------------------------------------------------
(* Bounds and the inputs drawn within them.                                *)

MaxPad == 1          \* blanks before and after a jurisdiction code
MaxResolve == 2      \* get_scraper calls in one behaviour of the registry
MaxDataRows == 2     \* data rows of a results table
MaxFLRows == 2       \* rows of the Florida summary table
MaxLookups == 1      \* lookups made on one adapter instance
MaxResults == 3      \* length of a Result sequence handed to the selection
MaxCloses == 2       \* close() calls made on one adapter instance
MaxLongRows == 8     \* rows of a long Florida summary table

Pad(n) == [i \in 1..n |-> " "]

RawCodes ==
    { <<"f","l">>, <<"F","L">>, <<"C","a">>, <<"t","x">>, <<"n","y">>,
      <<"N","Y">>, <<"G","a">>, <<>> }

Codes == { Pad(l) \o c \o Pad(r) : c \in RawCodes, l \in 0..MaxPad, r \in 0..MaxPad }

ExcMessages == { "", "Cannot connect to host" }

FailedResps ==
    { RaiseResp(m) : m \in ExcMessages } \cup { StatusResp(500) }
        \cup { BadBodyResp("codec can't decode") }

\* Rows of a results table: too short, with a third column, with a fourth.
Col3Texts == { sACTIVE, sValid, sCurrent, sRevoked, sExpired, sInactive, sNY, <<>> }

RowPool ==
    { <<>>, <<X>>, <<X, X>> }
        \cup { <<X, X, c3>> : c3 \in Col3Texts }
        \cup { <<X, X, c3, c4>> : c3 \in {sACTIVE, sExpired, sNY},
                                  c4 \in {tLifeAnnuity, tHealth} }

RECURSIVE SeqsUpTo(_, _)
SeqsUpTo(S, n) ==
    IF n = 0 THEN { <<>> }
    ELSE LET shorter == SeqsUpTo(S, n - 1)
         IN  shorter \cup { Append(q, x) : q \in { t \in shorter : Len(t) = n - 1 },
                                            x \in S }

Header == <<>>       \* the header row holds <th> cells only

\* The <tr> rows of a table: none at all, or the header and the data rows.
RowSeqs == { <<>> } \cup { <<Header>> \o d : d \in SeqsUpTo(RowPool, MaxDataRows) }

Table(known, rows) == [known |-> known, rows |-> rows]

TablePage(phrase, tables) == [phrase |-> phrase, tables |-> tables]

TablePages ==
    { TablePage(ph, <<>>) : ph \in BOOLEAN }
        \cup { TablePage(FALSE, <<Table(k, r)>>) : k \in BOOLEAN, r \in RowSeqs }
        \cup { TablePage(FALSE, <<Table(FALSE, <<>>), Table(FALSE, r)>>) :
                 r \in RowSeqs }

World(get, post) == [get |-> get, post |-> post]

OkGet == PageResp(NoPage)

\* Sources reached by one POST (California, Texas).
PostWorlds ==
    { World(OkGet, r) : r \in FailedResps }
        \cup { World(OkGet, PageResp(p)) : p \in TablePages }

\* The NAIC source: a GET, then the POST.
NAICWorlds ==
    { World(g, StatusResp(500)) : g \in { RaiseResp(""), StatusResp(500) } }
        \cup PostWorlds

\* Florida detail pages.
Panel(heading, rows) == [heading |-> heading, rows |-> rows]

DetailPage(panels) == [panels |-> panels]

DetailResps ==
    { RaiseResp(""), StatusResp(500),
      PageResp(DetailPage(<<>>)),
      PageResp(DetailPage(<<Panel(hValidLicenses, <<<<tLifeAnnuity, X>>>>),
                            Panel(hInvalidLicenses, <<>>)>>)),
      PageResp(DetailPage(<<Panel(hValidLicenses, <<>>),
                            Panel(hInvalidLicenses, <<<<tHealth, X>>>>)>>)),
      PageResp(DetailPage(<<Panel(hValidLicenses, <<<<X>>>>)>>)) }

FLRow(ncells, link, detail) == [ncells |-> ncells, link |-> link, detail |-> detail]

FLRowPool ==
    { FLRow(1, TRUE, StatusResp(500)), FLRow(2, FALSE, StatusResp(500)) }
        \cup { FLRow(2, TRUE, d) : d \in DetailResps }

FLPage(phrase, table, tbody, rows) ==
    [phrase |-> phrase, table |-> table, tbody |-> tbody, rows |-> rows]

\* A long summary table: linked rows with the same detail answer, but for
\* one row without a link (at `nolink`) and one of a single cell (at `short`).
LongRows(n, nolink, short, detail) ==
    [i \in 1..n |-> IF i = nolink THEN FLRow(2, FALSE, StatusResp(500))
                    ELSE IF i = short THEN FLRow(1, TRUE, StatusResp(500))
                    ELSE FLRow(2, TRUE, detail)]

LongFLPages ==
    { FLPage(FALSE, TRUE, TRUE, LongRows(n, nolink, short, detail)) :
        n \in MaxDetailFetch..MaxLongRows, nolink \in {0, 1, 4}, short \in {0, 2},
        detail \in { StatusResp(500),
                     PageResp(DetailPage(
                         <<Panel(hValidLicenses, <<<<tLifeAnnuity, X>>>>)>>)) } }

FLPages ==
    { FLPage(TRUE, FALSE, FALSE, <<>>), FLPage(FALSE, FALSE, FALSE, <<>>),
      FLPage(FALSE, TRUE, FALSE, <<>>) }
        \cup { FLPage(FALSE, TRUE, TRUE, r) : r \in SeqsUpTo(FLRowPool, MaxFLRows) }
        \cup LongFLPages

FloridaWorlds ==
    { World(g, StatusResp(500)) : g \in { RaiseResp(""), StatusResp(500) } }
        \cup { World(OkGet, r) : r \in FailedResps }
        \cup { World(OkGet, PageResp(p)) : p \in FLPages }

WorldsOf(cls) ==
    CASE cls = "FloridaScraper" -> FloridaWorlds
      [] cls = "NAICScraper" -> NAICWorlds
      [] OTHER -> PostWorlds

----------------------------------------------------------------------------
(* The lookup operations of an instance, by class.                         *)

Kinds == { "name", "npn", "license_number" }

Lookup(inst, kind, world) ==
    CASE inst.cls = "FloridaScraper" ->
            (CASE kind = "name" -> Florida_lookup_by_name(world)
               [] kind = "npn" -> Florida_lookup_by_npn(world)
               [] OTHER -> Florida_lookup_by_license_number(world))
      [] inst.cls = "CaliforniaScraper" ->
            (CASE kind = "name" -> California_lookup_by_name(world)
               [] kind = "npn" -> California_lookup_by_npn(world)
               [] OTHER -> California_lookup_by_license_number(world))
      [] inst.cls = "TexasScraper" ->
            (CASE kind = "name" -> Texas_lookup_by_name(world)
               [] kind = "npn" -> Texas_lookup_by_npn(world)
               [] OTHER -> Texas_lookup_by_license_number(world))
      [] OTHER ->
            (CASE kind = "name" -> NAIC_lookup_by_name(inst.state_code, world)
               [] kind = "npn" -> NAIC_lookup_by_npn(inst.state_code, world)
               [] OTHER -> NAIC_lookup_by_license_number(inst.state_code, world))

----------------------------------------------------------------------------
(* Values of the variables a specification does not use.                   *)

NoOutcome == Outcome(<<>>, <<>>, FALSE, FALSE)

NoWorld == World(OkGet, StatusResp(500))

RegIdle == reg_calls = <<>>

LkIdle ==
    /\ lk_world = NoWorld
    /\ lk_ref = 0
    /\ lk_kind = ""
    /\ lk_out = NoOutcome
    /\ lk_calls = 0
    /\ lk_trace = <<>>

SelIdle ==
    /\ sel_results = <<>>
    /\ sel_match = 0
    /\ sel_done = FALSE

\* A text column or argument that is NULL / None.
NoText == <<None>>

TruthyText(t) == t /= NoText /\ t /= <<>>

NoRow == [exists |-> FALSE]

MaxUsers == 2        \* discord ids: rows of onboarding_agents, /verify callers

Users == 1..MaxUsers

MaxCallers == 1      \* /verify invocations in one run

MaxTogether == 2     \* /verify invocations in one run of SpecTogether

NoCall ==
    [pc |-> "idle", state |-> NoText, ref |-> 0, out |-> NoOutcome, resp |-> ""]

FlowIdle ==
    /\ db = [u \in Users |-> NoRow]
    /\ checks = <<>> /\ dms = <<>> /\ sms = <<>> /\ roles = {}
    /\ sw_pc = "idle" /\ sw_agents = <<>> /\ sw_i = 0 /\ sw_ref = 0
    /\ sw_out = NoOutcome
    /\ sw_count = [checked |-> 0, alerts |-> 0, errors |-> 0]
    /\ sw_log = <<>> /\ sw_summary = <<>>
    /\ vf = [u \in Users |-> NoCall]

HeapEmpty ==
    /\ scrapers = <<>>
    /\ sessions = <<>>
    /\ scraper_map = SCRAPER_MAP

----------------------------------------------------------------------------
(* SpecRegistry: callers resolve jurisdiction codes, and the instances     *)
(* they get open their sessions.                                           *)

RegInit == HeapEmpty /\ RegIdle /\ LkIdle /\ SelIdle /\ FlowIdle

Resolve ==
    \E code \in Codes :
        /\ Len(reg_calls) < MaxResolve
        /\ LET r == get_scraper(scrapers, scraper_map, code)
           IN  /\ scrapers' = r.heap
               /\ reg_calls' = Append(reg_calls,
                      [arg |-> code, ret |-> r.ref, before |-> Len(scrapers)])
        /\ UNCHANGED <<sessions, scraper_map, lk_vars, sel_vars, flow_vars>>

\* An instance a caller holds asks for its session, as its lookups do.
RegOpen ==
    \E c \in DOMAIN reg_calls :
        LET ref == reg_calls[c].ret
            h == get_session(scrapers, sessions, ref)
        IN  /\ scrapers[ref].session = 0
            /\ scrapers' = h.scrapers
            /\ sessions' = h.sessions
            /\ UNCHANGED <<scraper_map, reg_vars, lk_vars, sel_vars, flow_vars>>

RegNext == Resolve \/ RegOpen

vars == <<heap_vars, reg_vars, lk_vars, sel_vars, flow_vars>>

SpecRegistry == RegInit /\ [][RegNext]_vars

\* The claims' own reading of "normalized": trimmed, then upper-cased.
Normalized(code) == Upper(Strip(code))

IsKey(code) == Normalized(code) \in DOMAIN SCRAPER_MAP

\* C9: a code that, trimmed and upper-cased, is no key of the dedicated map
\* resolves to a NAIC fallback instance whose _state_code is exactly the
\* trimmed, upper-cased code.
C9_FallbackCarriesNormalizedCode ==
    \A c \in DOMAIN reg_calls :
        ~IsKey(reg_calls[c].arg) =>
            /\ reg_calls[c].ret \in DOMAIN scrapers
            /\ scrapers[reg_calls[c].ret].cls = "NAICScraper"
            /\ scrapers[reg_calls[c].ret].state_code = Normalized(reg_calls[c].arg)

\* A padded, lower-case code outside the map has been resolved.
C9_Witness ==
    \E c \in DOMAIN reg_calls :
        /\ ~IsKey(reg_calls[c].arg)
        /\ reg_calls[c].arg /= Normalized(reg_calls[c].arg)
        /\ Normalized(reg_calls[c].arg) /= <<>>
        /\ Head(reg_calls[c].arg) = " "
        /\ scrapers[reg_calls[c].ret].cls = "NAICScraper"

\* C10: a code that normalizes to a key resolves to a newly constructed
\* instance of the class mapped to the key; no two calls return the same
\* instance or instances holding the same session; the map is unchanged.
C10_DedicatedIsFresh ==
    /\ scraper_map = SCRAPER_MAP
    /\ \A c \in DOMAIN reg_calls :
         IsKey(reg_calls[c].arg) =>
            /\ reg_calls[c].ret \in DOMAIN scrapers
            /\ reg_calls[c].ret > reg_calls[c].before
            /\ scrapers[reg_calls[c].ret].cls = SCRAPER_MAP[Normalized(reg_calls[c].arg)]
            /\ \A d \in DOMAIN reg_calls \ {c} :
                 /\ reg_calls[d].ret /= reg_calls[c].ret
                 /\ scrapers[reg_calls[c].ret].session /= 0 =>
                      scrapers[reg_calls[d].ret].session
                          /= scrapers[reg_calls[c].ret].session

\* Two calls with codes that normalize to the same key, both instances with
\* an open session.
C10_Witness ==
    /\ Len(reg_calls) = 2
    /\ IsKey(reg_calls[1].arg)
    /\ Normalized(reg_calls[1].arg) = Normalized(reg_calls[2].arg)
    /\ reg_calls[1].arg /= reg_calls[2].arg
    /\ scrapers[reg_calls[1].ret].session /= 0
    /\ scrapers[reg_calls[2].ret].session /= 0

----------------------------------------------------------------------------
(* SpecSelect: the selection applied to a Result sequence.                 *)

ResultPool ==
    { NotFoundResult, ErrorResult("HTTP 500"),
      CaliforniaRow(<<X, X, sACTIVE, tLifeAnnuity>>),
      CaliforniaRow(<<X, X, sACTIVE, tHealth>>),
      CaliforniaRow(<<X, X, sACTIVE>>),
      CaliforniaRow(<<X, X, sExpired, tLifeAnnuity>>),
      TexasRow(<<X, X>>),
      NAICRow(<<X, X, sNY>>, sNY) }

SelInit ==
    /\ HeapEmpty /\ RegIdle /\ LkIdle /\ FlowIdle
    /\ sel_results \in SeqsUpTo(ResultPool, MaxResults) \ { <<>> }
    /\ sel_match = 0
    /\ sel_done = FALSE

Select ==
    /\ ~sel_done
    /\ sel_match' = FindBestMatch(sel_results)
    /\ sel_done' = TRUE
    /\ UNCHANGED <<sel_results, heap_vars, reg_vars, lk_vars, flow_vars>>

SelNext == Select

SpecSelect == SelInit /\ [][SelNext]_vars

\* isPrimaryLicensed together with found and active, as the claims state it.
Primary(r) == r.found /\ r.active /\ is_life_licensed(r)

FoundActive(r) == r.found /\ r.active

\* C6: when the sequence holds a Result with found, active and
\* isPrimaryLicensed, the selection returns such a Result.
C6_PrimaryPreferred ==
    (sel_done /\ \E i \in DOMAIN sel_results : Primary(sel_results[i])) =>
        (sel_match /= 0 /\ Primary(sel_results[sel_match]))

\* C7: when the sequence holds no primary Result but one with found and
\* active, the selection returns the first Result with found and active.
C7_FirstActive ==
    (/\ sel_done
     /\ \A i \in DOMAIN sel_results : ~Primary(sel_results[i])
     /\ \E i \in DOMAIN sel_results : FoundActive(sel_results[i])) =>
        (/\ sel_match /= 0
         /\ FoundActive(sel_results[sel_match])
         /\ \A j \in 1..(sel_match - 1) : ~FoundActive(sel_results[j]))

\* C8: the selection never returns a Result with found=false, active=false
\* or an error set, and returns no match when every Result has found=false.
C8_OnlyFoundActive ==
    sel_done =>
        /\ sel_match /= 0 =>
             /\ sel_results[sel_match].found
             /\ sel_results[sel_match].active
             /\ sel_results[sel_match].error = None
        /\ (\A i \in DOMAIN sel_results : ~sel_results[i].found) => sel_match = 0

\* A match was chosen although an error sentinel and an inactive record
\* come before it.
C8_Witness ==
    /\ sel_done
    /\ sel_match = 3
    /\ sel_results[1].error /= None
    /\ sel_results[2].found /\ ~sel_results[2].active

\* No match was chosen from sentinels alone.
C8_WitnessNone ==
    /\ sel_done
    /\ sel_match = 0
    /\ Len(sel_results) = 2
    /\ \A i \in DOMAIN sel_results : ~sel_results[i].found

----------------------------------------------------------------------------
(* SpecLookup: one adapter instance from the registry, a remote source     *)
(* that answers one way, and the lookups and the close made on it.         *)

LookupCodes == { FL, CA, TX, sNY }

LkInit ==
    /\ RegIdle /\ SelIdle /\ FlowIdle
    /\ sessions = <<>>
    /\ scraper_map = SCRAPER_MAP
    /\ \E code \in LookupCodes :
         LET r == get_scraper(<<>>, SCRAPER_MAP, code)
         IN  /\ scrapers = r.heap
             /\ lk_ref = r.ref
             /\ lk_world \in WorldsOf(r.heap[r.ref].cls)
    /\ lk_kind = ""
    /\ lk_out = NoOutcome
    /\ lk_calls = 0
    /\ lk_trace = <<>>

\* One lookup of the given kind, start to return.
DoLookup(kind) ==
    /\ lk_calls < MaxLookups
    /\ LET out == Lookup(scrapers[lk_ref], kind, lk_world)
           h == IF out.session_used
                THEN get_session(scrapers, sessions, lk_ref)
                ELSE [scrapers |-> scrapers, sessions |-> sessions]
       IN  /\ lk_out' = out
           /\ scrapers' = h.scrapers
           /\ sessions' = h.sessions
    /\ lk_kind' = kind
    /\ lk_calls' = lk_calls + 1
    /\ lk_trace' = Append(lk_trace, kind)
    /\ UNCHANGED <<scraper_map, lk_world, lk_ref, reg_vars, sel_vars, flow_vars>>

LookupByName == DoLookup("name")

LookupByNpn == DoLookup("npn")

LookupByLicenseNumber == DoLookup("license_number")

Closes(trace) == Len(SelectSeq(trace, LAMBDA op : op = "close"))

\* await scraper.close()
LkClose ==
    /\ Closes(lk_trace) < MaxCloses
    /\ sessions' = close(scrapers, sessions, lk_ref)
    /\ lk_trace' = Append(lk_trace, "close")
    /\ UNCHANGED <<scrapers, scraper_map, lk_world, lk_ref, lk_kind, lk_out, lk_calls>>
    /\ UNCHANGED <<reg_vars, sel_vars, flow_vars>>

LkNext == LookupByName \/ LookupByNpn \/ LookupByLicenseNumber \/ LkClose

SpecLookup == LkInit /\ [][LkNext]_vars

LkDone == lk_kind /= ""

\* C2: whatever the source answers, a lookup of any kind on any adapter
\* returns at least one Result.
C2_LookupNeverEmpty == LkDone => Len(lk_out.results) >= 1

\* A results table whose data rows are all too short was parsed.
C2_Witness ==
    /\ LkDone
    /\ lk_world.post.kind = "page"
    /\ scrapers[lk_ref].cls = "CaliforniaScraper"
    /\ lk_kind = "name"
    /\ lk_world.post.page.tables /= <<>>
    /\ Len(lk_world.post.page.tables[1].rows) = 3
    /\ \A i \in 2..3 : Len(lk_world.post.page.tables[1].rows[i]) < 2
    /\ lk_out.results = <<NotFoundResult>>

\* Some request of the lookup met a raising HTTP client or an unreadable
\* body: the session-init GET, the search POST, or a detail GET that the
\* Florida adapter went on to issue.
RequestRaised ==
    LET w == lk_world
        reached_post == ~Raises(w.get) /\ ~BadStatus(w.get)
        flrows == w.post.page.rows
    IN  /\ lk_out.requests /= <<>>
        /\ \/ Head(lk_out.requests) = "GET" /\ Raises(w.get)
           \/ /\ Head(lk_out.requests) = "POST" \/ reached_post
              /\ Raises(w.post) \/ BadBody(w.post)
           \/ /\ scrapers[lk_ref].cls = "FloridaScraper"
              /\ reached_post
              /\ w.post.kind = "page"
              /\ ~w.post.page.phrase /\ w.post.page.table /\ w.post.page.tbody
              /\ \E i \in DOMAIN flrows :
                   /\ flrows[i].ncells >= 2 /\ flrows[i].link
                   /\ Raises(flrows[i].detail) \/ BadBody(flrows[i].detail)

\* C3: when the HTTP client or the parse raises, the lookup raises nothing
\* and returns a single Result with found=false and the error set.
C3_RaiseBecomesErrorResult ==
    (LkDone /\ RequestRaised) =>
        /\ ~lk_out.raised
        /\ Len(lk_out.results) = 1
        /\ ~lk_out.results[1].found
        /\ lk_out.results[1].error /= None

\* C11: close is idempotent on every adapter: no session is torn down
\* twice, whatever lookups and closes came before, and a close on an
\* adapter that never made a session touches nothing.
C11_CloseIdempotent ==
    /\ \A s \in DOMAIN sessions :
         /\ sessions[s].teardowns <= 1
         /\ sessions[s].closed <=> sessions[s].teardowns = 1
    /\ (Closes(lk_trace) > 0 /\ scrapers[lk_ref].session = 0) => sessions = <<>>
    /\ (lk_trace /= <<>> /\ lk_trace[Len(lk_trace)] = "close") =>
            \A s \in DOMAIN sessions : sessions[s].closed

\* A name lookup, then two closes: the session was torn down once.
C11_Witness ==
    /\ lk_trace = <<"name", "close", "close">>
    /\ scrapers[lk_ref].session /= 0
    /\ sessions[scrapers[lk_ref].session].teardowns = 1

\* The lookup kinds a source's form has no field for.
Unsupported(cls, kind) ==
    \/ cls \in {"CaliforniaScraper", "TexasScraper"} /\ kind = "npn"
    \/ cls = "NAICScraper" /\ kind \in {"npn", "license_number"}

\* C12: an unsupported lookup kind returns exactly one Result with
\* found=false and a non-empty error, raises nothing, issues no request
\* and opens no session.
C12_UnsupportedIsSentinel ==
    (LkDone /\ Unsupported(scrapers[lk_ref].cls, lk_kind)) =>
        /\ ~lk_out.raised
        /\ Len(lk_out.results) = 1
        /\ ~lk_out.results[1].found
        /\ Truthy(lk_out.results[1].error)
        /\ lk_out.requests = <<>>
        /\ ~lk_out.session_used
        /\ lk_calls = 1 => (sessions = <<>> /\ scrapers[lk_ref].session = 0)

\* An NPN lookup on the Texas adapter, whose source would have answered
\* the search form with a table of one active record.
C12_Witness ==
    /\ scrapers[lk_ref].cls = "TexasScraper"
    /\ lk_kind = "npn"
    /\ lk_world.post.kind = "page"
    /\ TexasParse(lk_world.post.page) = <<TexasRow(<<X, X, sACTIVE>>)>>
    /\ lk_out.results = <<ErrorResult("TX does not support NPN lookup")>>
    /\ sessions = <<>>

Dedicated(cls) == cls \in {"FloridaScraper", "CaliforniaScraper", "TexasScraper"}

\* The status texts the normalization is stated for, lower-cased.
ActiveTexts == {kActive, kValid, kCurrent}

InactiveTexts == {Lower(sRevoked), Lower(sExpired), <<>>}

\* C13: whichever dedicated adapter parsed it, a record whose status text
\* is "ACTIVE", "Valid" or "current" is active, and one whose status text
\* is "Revoked", "Expired" or "" is not.
C13_StatusNormalizationUniform ==
    (LkDone /\ Dedicated(scrapers[lk_ref].cls)) =>
        \A i \in DOMAIN lk_out.results :
            LET r == lk_out.results[i]
            IN  r.found =>
                  /\ Lower(r.status) \in ActiveTexts => r.active
                  /\ Lower(r.status) \in InactiveTexts => ~r.active

Fallback == scrapers[lk_ref].cls = "NAICScraper"

\* C17: every found Result of the fallback adapter carries the jurisdiction
\* code the adapter was asked for.
C17_FallbackTagsRequested ==
    (LkDone /\ Fallback) =>
        \A i \in DOMAIN lk_out.results :
            lk_out.results[i].found =>
                lk_out.results[i].state = scrapers[lk_ref].state_code

\* The rows of the Florida summary table whose detail page the parse
\* fetched, in order: Result i of the lookup was built from row i of these.
Fetched ==
    LET page == lk_world.post.page
        linked == SelectSeq(page.rows, LAMBDA row : row.ncells >= 2 /\ row.link)
    IN  IF Len(linked) > MaxDetailFetch THEN SubSeq(linked, 1, MaxDetailFetch)
        ELSE linked

\* The lookup reached the summary table and fetched at least one detail page.
FloridaParsed ==
    /\ LkDone
    /\ scrapers[lk_ref].cls = "FloridaScraper"
    /\ ~Raises(lk_world.get) /\ ~BadStatus(lk_world.get)
    /\ lk_world.post.kind = "page"
    /\ ~lk_world.post.page.phrase
    /\ lk_world.post.page.table /\ lk_world.post.page.tbody
    /\ Fetched /= <<>>

\* The detail page lists a license (a row of two cells or more) in the panel
\* under this heading.
ListedUnder(resp, heading) ==
    /\ resp.kind = "page"
    /\ \E p \in DOMAIN resp.page.panels :
          /\ Lower(Strip(resp.page.panels[p].heading)) = Lower(heading)
          /\ \E r \in DOMAIN resp.page.panels[p].rows :
                Len(resp.page.panels[p].rows[r]) >= 2

\* C21: a Florida Result is active only if its detail page lists a license
\* under "Valid Licenses"; a candidate listed under "Invalid Licenses" only
\* has status INVALID and is not active.
C21_StatusFollowsPanel ==
    FloridaParsed =>
        /\ Len(lk_out.results) = Len(Fetched)
        /\ \A i \in DOMAIN Fetched :
              LET d == Fetched[i].detail
                  r == lk_out.results[i]
              IN  /\ r.active => ListedUnder(d, hValidLicenses)
                  /\ (ListedUnder(d, hInvalidLicenses)
                        /\ ~ListedUnder(d, hValidLicenses)) =>
                          (r.status = sINVALID /\ ~r.active)

DetailGets == Len(SelectSeq(lk_out.requests, LAMBDA q : q = "GET detail"))

\* C22: a Florida lookup issues at most five detail GETs and returns at
\* most five Results however long the summary table is, one GET for each of
\* the first five rows that have two cells and a link, none for the others.
C22_DetailFanOutBounded ==
    (LkDone /\ scrapers[lk_ref].cls = "FloridaScraper") =>
        /\ DetailGets <= MaxDetailFetch
        /\ Len(lk_out.results) <= MaxDetailFetch
        /\ FloridaParsed => DetailGets = Len(Fetched)
        /\ (DetailGets > 0) => FloridaParsed

\* A summary table of more than five linked rows, with a row that has no
\* link and a row of one cell among them: five detail GETs, five Results.
C22_Witness ==
    /\ FloridaParsed
    /\ Len(SelectSeq(lk_world.post.page.rows,
                     LAMBDA row : row.ncells >= 2 /\ row.link)) > MaxDetailFetch
    /\ \E i \in DOMAIN lk_world.post.page.rows : ~lk_world.post.page.rows[i].link
    /\ \E i \in DOMAIN lk_world.post.page.rows : lk_world.post.page.rows[i].ncells < 2
    /\ DetailGets = MaxDetailFetch
    /\ Len(lk_out.results) = MaxDetailFetch

\* C23: the requests of a Florida lookup are the landing-page GET, then the
\* form POST, then the detail GETs, on the one session the adapter holds; a
\* GET answered with a status other than 200 ends the lookup before the
\* POST, and such a POST ends it before any detail GET.
C23_FloridaRequestOrder ==
    (LkDone /\ scrapers[lk_ref].cls = "FloridaScraper") =>
        LET q == lk_out.requests
        IN  /\ q /= <<>> /\ q[1] = "GET"
            /\ \A i \in DOMAIN q :
                  /\ q[i] = "GET" => i = 1
                  /\ q[i] = "POST" => i = 2
                  /\ q[i] = "GET detail" => (i >= 3 /\ q[2] = "POST")
            /\ lk_world.get.status /= 200 => q = <<"GET">>
            /\ lk_world.post.status /= 200 => Len(q) <= 2
            /\ \A x \in DOMAIN sessions : sessions[x].owner = lk_ref
            /\ \A x, y \in DOMAIN sessions :
                  (~sessions[x].closed /\ ~sessions[y].closed) => x = y
            /\ scrapers[lk_ref].session \in DOMAIN sessions

\* A lookup whose summary table has two linked rows: GET, POST, two detail
\* GETs, one session.
C23_Witness ==
    /\ LkDone
    /\ scrapers[lk_ref].cls = "FloridaScraper"
    /\ lk_out.requests = <<"GET", "POST", "GET detail", "GET detail">>
    /\ Len(sessions) = 1
    /\ ~sessions[1].closed

\* Status texts of a license that is not in force which hold a positive
\* keyword inside them, lower-cased.
NegatedTexts ==
    { Lower(sInactive), Lower(sINVALID),
      <<"n","o","t"," ","a","c","t","i","v","e">> }

Refused(resp) == resp.kind = "status" /\ resp.status /= 200

\* Some request of the lookup was answered with a status other than 200:
\* the session-init GET, the search POST, or a detail GET that the Florida
\* adapter went on to issue.
RequestFailed ==
    LET w == lk_world
        reached_post == ~Raises(w.get) /\ ~Refused(w.get)
        flrows == w.post.page.rows
    IN  /\ lk_out.requests /= <<>>
        /\ \/ Head(lk_out.requests) = "GET" /\ Refused(w.get)
           \/ /\ Head(lk_out.requests) = "POST" \/ reached_post
              /\ Refused(w.post)
           \/ /\ scrapers[lk_ref].cls = "FloridaScraper"
              /\ reached_post
              /\ w.post.kind = "page"
              /\ ~w.post.page.phrase /\ w.post.page.table /\ w.post.page.tbody
              /\ \E i \in DOMAIN flrows :
                   /\ flrows[i].ncells >= 2 /\ flrows[i].link
                   /\ Refused(flrows[i].detail)

\* C19: a request answered with a non-success status shows in the returned
\* sequence as a Result with found=false and the error set.
C19_BadStatusBecomesErrorResult ==
    (LkDone /\ RequestFailed) =>
        \E i \in DOMAIN lk_out.results :
            /\ ~lk_out.results[i].found
            /\ lk_out.results[i].error /= None

----------------------------------------------------------------------------
(* The persistence layer (src/db.py) as the flows use it.                  *)

Row(full_name, home_state, phone_number, license_status) ==
    [exists |-> TRUE, full_name |-> full_name, home_state |-> home_state,
     phone_number |-> phone_number, license_status |-> license_status,
     license_verified |-> 0, last_license_check |-> FALSE]

nAnnLee == <<"A","n","n"," ","L","e","e">>
nBo == <<"B","o">>
nBlank == <<" ">>
pPhone == <<"+","1","5">>

\* Rows the table may hold when the bot starts.
RowChoices ==
    { NoRow,
      Row(nAnnLee, FL, pPhone, "licensed"),
      Row(nBo, sNY, NoText, "licensed"),
      Row(nBlank, TX, pPhone, "licensed"),
      Row(<<>>, CA, NoText, "licensed"),
      Row(nBo, FL, NoText, "none") }

\* The WHERE clause of get_licensed_agents; kicked_at is NULL in every row
\* of the model.
IsMonitored(row) ==
    /\ row.exists
    /\ row.license_status = "licensed"
    /\ row.home_state /= NoText
    /\ row.home_state /= <<>>
    /\ row.full_name /= NoText

RECURSIVE AgentsFrom(_, _)
AgentsFrom(table, u) ==
    IF u > MaxUsers THEN <<>>
    ELSE (IF IsMonitored(table[u])
          THEN <<[discord_id |-> u, full_name |-> table[u].full_name,
                  home_state |-> table[u].home_state,
                  phone_number |-> table[u].phone_number]>>
          ELSE <<>>) \o AgentsFrom(table, u + 1)

get_licensed_agents(table) == AgentsFrom(table, 1)

\* UPDATE onboarding_agents SET last_license_check = ? WHERE discord_id = ?
StampCheck(table, u) ==
    IF table[u].exists
    THEN [table EXCEPT ![u].last_license_check = TRUE]
    ELSE table

log_check(log, discord_id, state, status) ==
    Append(log, [agent_discord_id |-> discord_id, state |-> state, status |-> status])

----------------------------------------------------------------------------
(* What the sources answer while the flows run: a few answers per class.   *)

OneRowPage(cells) ==
    PageResp(TablePage(FALSE, <<Table(TRUE, <<Header, cells>>)>>))

FLOneRow(detail) == PageResp(FLPage(FALSE, TRUE, TRUE, <<FLRow(2, TRUE, detail)>>))

FlowWorlds(cls) ==
    CASE cls = "FloridaScraper" ->
            { World(StatusResp(500), StatusResp(500)),
              World(OkGet, PageResp(FLPage(TRUE, FALSE, FALSE, <<>>))),
              World(OkGet, FLOneRow(PageResp(DetailPage(
                  <<Panel(hValidLicenses, <<<<tLifeAnnuity, X>>>>)>>)))),
              World(OkGet, FLOneRow(PageResp(DetailPage(<<>>)))) }
      [] cls = "NAICScraper" ->
            { World(OkGet, RaiseResp("")),
              World(OkGet, PageResp(TablePage(TRUE, <<>>))),
              World(OkGet, OneRowPage(<<X, X, sNY>>)) }
      [] OTHER ->
            { World(OkGet, StatusResp(500)),
              World(OkGet, PageResp(TablePage(TRUE, <<>>))),
              World(OkGet, OneRowPage(<<X, X, sACTIVE, tLifeAnnuity>>)),
              World(OkGet, OneRowPage(<<X, X, sExpired, tHealth>>)) }

\* An exception that leaves lookup_by_name, with or without a session made.
Escaped(session_used) == Outcome(<<>>, <<>>, session_used, TRUE)

\* The heap once the lookup has made the session it used.
Opened(out, ref) ==
    IF out.session_used
    THEN get_session(scrapers, sessions, ref)
    ELSE [scrapers |-> scrapers, sessions |-> sessions]

----------------------------------------------------------------------------
(* The scheduled sweep (src/cogs/monitor.py).                              *)

RECURSIVE Words(_)
\* str.split(): the words between runs of blanks.
Words(s) ==
    LET t == LStrip(s)
        n == IF \E i \in DOMAIN t : IsSpace(t[i])
             THEN CHOOSE i \in DOMAIN t :
                    IsSpace(t[i]) /\ \A j \in 1..(i - 1) : ~IsSpace(t[j])
             ELSE Len(t) + 1
    IN  IF t = <<>> THEN <<>>
        ELSE <<SubSeq(t, 1, n - 1)>> \o Words(SubSeq(t, n, Len(t)))

\* Lines 86-88: parts[0] is read when parts is empty.
NameSplitRaises(full_name) == Words(Strip(full_name)) = <<>>

Agent == sw_agents[sw_i]

HasError(results) == \E i \in DOMAIN results : Truthy(results[i].error)

\* One line of the sweep's history: who was checked, how the check ended
\* ("raised" for an exception caught on line 58), whether the lookup
\* raised, and what it had returned: anything at all, a Result with its
\* error set, a found Result, a found and active Result.
LogEntry(result) ==
    [discord_id |-> Agent.discord_id, result |-> result,
     lookup_raised |-> sw_out.raised,
     looked_up |-> sw_out.results /= <<>>,
     lookup_error |-> HasError(sw_out.results),
     lookup_found |-> \E i \in DOMAIN sw_out.results : sw_out.results[i].found,
     lookup_active |-> \E i \in DOMAIN sw_out.results :
                          sw_out.results[i].found /\ sw_out.results[i].active]

\* A loop whose except clause leaves the loop.
SweepAdvance_Abort(result) ==
    /\ sw_log' = Append(sw_log, LogEntry(result))
    /\ sw_count' =
         [checked |-> sw_count.checked + (IF result /= "raised" THEN 1 ELSE 0),
          alerts |-> sw_count.alerts + (IF result = "alert" THEN 1 ELSE 0),
          errors |-> sw_count.errors + (IF result = "raised" THEN 1 ELSE 0)]
    /\ sw_ref' = 0
    /\ sw_out' = NoOutcome
    /\ IF sw_i < Len(sw_agents) /\ result /= "raised"
       THEN sw_i' = sw_i + 1 /\ sw_pc' = "check"
       ELSE sw_i' = sw_i /\ sw_pc' = "summary"

\* check_loop, after one agent: the next one, or the summary.
SweepAdvance(result) ==
    /\ sw_log' = Append(sw_log, LogEntry(result))
    /\ sw_count' =
         [checked |-> sw_count.checked + (IF result /= "raised" THEN 1 ELSE 0),
          alerts |-> sw_count.alerts + (IF result = "alert" THEN 1 ELSE 0),
          errors |-> sw_count.errors + (IF result = "raised" THEN 1 ELSE 0)]
    /\ sw_ref' = 0
    /\ sw_out' = NoOutcome
    /\ IF sw_i < Len(sw_agents)
       THEN sw_i' = sw_i + 1 /\ sw_pc' = "check"
       ELSE sw_i' = sw_i /\ sw_pc' = "summary"

\* check_loop up to the for loop.
SweepStart ==
    /\ sw_pc = "idle"
    /\ sw_agents' = get_licensed_agents(db)
    /\ IF sw_agents' = <<>>
       THEN sw_pc' = "done" /\ sw_i' = 0
       ELSE sw_pc' = "check" /\ sw_i' = 1
    /\ UNCHANGED <<sw_ref, sw_out, sw_count, sw_log, sw_summary>>
    /\ UNCHANGED <<heap_vars, reg_vars, lk_vars, sel_vars, store_vars, vf_vars>>

\* A validation that lets every agent through.
MissingInput_Never(agent) == FALSE

\* Line 82: `if not full_name or not state`.
MissingInput(agent) ==
    ~TruthyText(agent.full_name) \/ ~TruthyText(agent.home_state)

\* _check_one up to get_scraper.
SweepCheck ==
    /\ sw_pc = "check"
    /\ IF MissingInput(Agent)
       THEN SweepAdvance("error") /\ UNCHANGED scrapers
       ELSE IF NameSplitRaises(Agent.full_name)
       THEN SweepAdvance("raised") /\ UNCHANGED scrapers
       ELSE LET r == get_scraper(scrapers, scraper_map, Agent.home_state)
            IN  /\ scrapers' = r.heap
                /\ sw_ref' = r.ref
                /\ sw_pc' = "lookup"
                /\ UNCHANGED <<sw_i, sw_out, sw_count, sw_log>>
    /\ UNCHANGED <<sw_agents, sw_summary, sessions, scraper_map>>
    /\ UNCHANGED <<reg_vars, lk_vars, sel_vars, store_vars, vf_vars>>

\* results = await scraper.lookup_by_name(first, last)
SweepLookup ==
    /\ sw_pc = "lookup"
    /\ \/ \E used \in BOOLEAN : sw_out' = Escaped(used)
       \/ \E w \in FlowWorlds(scrapers[sw_ref].cls) :
            sw_out' = Lookup(scrapers[sw_ref], "name", w)
    /\ scrapers' = Opened(sw_out', sw_ref).scrapers
    /\ sessions' = Opened(sw_out', sw_ref).sessions
    /\ sw_pc' = "close"
    /\ UNCHANGED <<sw_agents, sw_i, sw_ref, sw_count, sw_log, sw_summary, scraper_map>>
    /\ UNCHANGED <<reg_vars, lk_vars, sel_vars, store_vars, vf_vars>>

\* A check that goes on without closing its adapter.
SweepClose_Skipped ==
    /\ sw_pc = "close"
    /\ IF sw_out.raised
       THEN SweepAdvance("raised")
       ELSE sw_pc' = "act" /\ UNCHANGED <<sw_i, sw_ref, sw_out, sw_count, sw_log>>
    /\ UNCHANGED <<sw_agents, sw_summary, sessions, scrapers, scraper_map>>
    /\ UNCHANGED <<reg_vars, lk_vars, sel_vars, store_vars, vf_vars>>

\* finally: await scraper.close(); an exception of the lookup then goes on
\* to check_loop's except.
SweepClose ==
    /\ sw_pc = "close"
    /\ sessions' = close(scrapers, sessions, sw_ref)
    /\ IF sw_out.raised
       THEN SweepAdvance("raised")
       ELSE sw_pc' = "act" /\ UNCHANGED <<sw_i, sw_ref, sw_out, sw_count, sw_log>>
    /\ UNCHANGED <<sw_agents, sw_summary, scrapers, scraper_map>>
    /\ UNCHANGED <<reg_vars, lk_vars, sel_vars, store_vars, vf_vars>>

\* A test that takes any found record for an active one.
AnyActive_Found(results) == \E i \in DOMAIN results : results[i].found

\* Line 98.
AnyActive(results) == \E i \in DOMAIN results : results[i].found /\ results[i].active

\* _check_one from line 97 on; the first database call may fail.
SweepAct ==
    /\ sw_pc = "act"
    /\ \E db_ok \in BOOLEAN :
         IF ~db_ok
         THEN SweepAdvance("raised") /\ UNCHANGED store_vars
         ELSE IF AnyActive(sw_out.results)
         THEN /\ db' = StampCheck(db, Agent.discord_id)
              /\ checks' = log_check(checks, Agent.discord_id, Agent.home_state, "active")
              /\ UNCHANGED <<dms, sms, roles>>
              /\ SweepAdvance("ok")
         ELSE /\ db' = StampCheck(db, Agent.discord_id)
              /\ checks' = log_check(checks, Agent.discord_id, Agent.home_state, "inactive")
              /\ dms' = Append(dms, Agent.discord_id)
              /\ sms' = IF TruthyText(Agent.phone_number)
                        THEN Append(sms, [to |-> Agent.phone_number, status |-> "expired"])
                        ELSE sms
              /\ UNCHANGED roles
              /\ SweepAdvance("alert")
    /\ UNCHANGED <<sw_agents, sw_summary, heap_vars>>
    /\ UNCHANGED <<reg_vars, lk_vars, sel_vars, vf_vars>>

\* await self._post_summary(checked, alerts, errors)
SweepSummary ==
    /\ sw_pc = "summary"
    /\ sw_summary' = <<sw_count>>
    /\ sw_pc' = "done"
    /\ UNCHANGED <<sw_agents, sw_i, sw_ref, sw_out, sw_count, sw_log>>
    /\ UNCHANGED <<heap_vars, reg_vars, lk_vars, sel_vars, store_vars, vf_vars>>

SweepNext ==
    SweepStart \/ SweepCheck \/ SweepLookup \/ SweepClose \/ SweepAct \/ SweepSummary

FlowInit ==
    /\ HeapEmpty /\ RegIdle /\ LkIdle /\ SelIdle
    /\ db \in [Users -> RowChoices]
    /\ checks = <<>> /\ dms = <<>> /\ sms = <<>> /\ roles = {}
    /\ sw_pc = "idle" /\ sw_agents = <<>> /\ sw_i = 0 /\ sw_ref = 0
    /\ sw_out = NoOutcome
    /\ sw_count = [checked |-> 0, alerts |-> 0, errors |-> 0]
    /\ sw_log = <<>> /\ sw_summary = <<>>
    /\ vf = [u \in Users |-> NoCall]

\* SpecSweep: the sweep alone; the event loop resumes it after every await.
SpecSweep == FlowInit /\ [][SweepNext]_vars /\ WF_vars(SweepNext)

\* C1: an agent whose name lookup returned a Result with its error set is
\* classified as an error, not an alert: no DM, no SMS alert and no
\* 'inactive' check is recorded for that agent.
C1_LookupErrorIsNotAlert ==
    \A i \in DOMAIN sw_log :
        sw_log[i].lookup_error =>
            /\ sw_log[i].result \in {"error", "raised"}
            /\ \A j \in DOMAIN dms : dms[j] /= sw_log[i].discord_id
            /\ \A j \in DOMAIN sms :
                 ~(sms[j].to = sw_agents[i].phone_number /\ sms[j].status = "expired")
            /\ \A j \in DOMAIN checks :
                 ~(/\ checks[j].agent_discord_id = sw_log[i].discord_id
                   /\ checks[j].status = "inactive")

\* The places of the history with the given result, in order.
Checked(result) ==
    SelectSeq([i \in DOMAIN sw_log |-> i], LAMBDA i : sw_log[i].result = result)

AlertsWithPhone ==
    SelectSeq(Checked("alert"), LAMBDA i : TruthyText(sw_agents[i].phone_number))

\* The rows of license_checks with the given status, in order.
ChecksWith(status) == SelectSeq(checks, LAMBDA c : c.status = status)

\* C14: a DM alert, and an SMS when a phone number is on file, is attempted
\* for exactly the agents whose check ended as an alert; a lookup that
\* returned no error and no active record (the not-found sentinel, or
\* inactive records only) ends as an alert; a check that ended ok logged
\* an 'active' check and sent nothing.
C14_NotifyIffAlert ==
    /\ dms = [k \in DOMAIN Checked("alert") |->
                sw_agents[Checked("alert")[k]].discord_id]
    /\ SelectSeq(sms, LAMBDA m : m.status = "expired")
         = [k \in DOMAIN AlertsWithPhone |->
              [to |-> sw_agents[AlertsWithPhone[k]].phone_number,
               status |-> "expired"]]
    /\ \A i \in DOMAIN sw_log :
         (/\ sw_log[i].looked_up
          /\ ~sw_log[i].lookup_error
          /\ ~sw_log[i].lookup_active
          /\ sw_log[i].result /= "raised") => sw_log[i].result = "alert"
    /\ [k \in DOMAIN ChecksWith("active") |-> ChecksWith("active")[k].agent_discord_id]
         = [k \in DOMAIN Checked("ok") |-> sw_agents[Checked("ok")[k]].discord_id]
    /\ \A i \in DOMAIN sw_log :
         sw_log[i].result = "ok" =>
            \A j \in DOMAIN checks :
                ~(/\ checks[j].agent_discord_id = sw_log[i].discord_id
                  /\ checks[j].status = "inactive")

\* The first agent, with a phone on file, got the not-found sentinel and
\* was alerted by DM and SMS; the second was found active and got nothing.
C14_Witness ==
    /\ Len(sw_log) = 2
    /\ sw_log[1].result = "alert"
    /\ sw_log[1].looked_up /\ ~sw_log[1].lookup_error /\ ~sw_log[1].lookup_found
    /\ sw_log[2].result = "ok"
    /\ dms = <<sw_log[1].discord_id>>
    /\ Len(sms) = 1
    /\ ChecksWith("active") /= <<>>

\* C15: the check of an agent whose name or state is missing ends as an
\* error and leaves the rest as it was: no adapter is made, no session, no
\* row is updated, no check is logged, nothing is sent.
C15_MissingInputFrame ==
    [][(/\ sw_pc = "check"
        /\ Agent.full_name \in {NoText, <<>>} \/ Agent.home_state \in {NoText, <<>>})
       => (/\ Len(sw_log') = Len(sw_log) + 1
           /\ sw_log'[Len(sw_log')].discord_id = Agent.discord_id
           /\ sw_log'[Len(sw_log')].result = "error"
           /\ ~sw_log'[Len(sw_log')].looked_up
           /\ UNCHANGED <<scrapers, sessions, scraper_map>>
           /\ UNCHANGED <<db, checks, dms, sms, roles>>)]_vars

\* A sweep over one agent whose name is empty has ended: one error, no
\* adapter, no logged check, no message.
C15_Witness ==
    /\ sw_pc = "done"
    /\ Len(sw_agents) = 1
    /\ sw_agents[1].full_name = <<>>
    /\ Len(sw_log) = 1 /\ sw_log[1].result = "error"
    /\ scrapers = <<>> /\ sessions = <<>>
    /\ checks = <<>> /\ dms = <<>> /\ sms = <<>>
    /\ \A u \in Users : db[u].exists => ~db[u].last_license_check

\* C18: every found Result of the fallback adapter is active and has the
\* status "Found in NAIC", so the sweep's test for an active license (line 98) holds
\* of any fallback answer with a found record.
C18_FallbackFoundIsActive ==
    (LkDone /\ Fallback) =>
        /\ \A i \in DOMAIN lk_out.results :
              lk_out.results[i].found =>
                  /\ lk_out.results[i].active
                  /\ lk_out.results[i].status = sFoundInNAIC
        /\ (\E i \in DOMAIN lk_out.results : lk_out.results[i].found) =>
              AnyActive(lk_out.results)

\* A name lookup for NY, which has no adapter of its own, found one record.
C18_Witness ==
    /\ Fallback
    /\ scrapers[lk_ref].state_code = sNY
    /\ lk_kind = "name"
    /\ Len(lk_out.results) = 1
    /\ lk_out.results[1].found
    /\ lk_out.results[1].status = sFoundInNAIC
    /\ AnyActive(lk_out.results)

\* C24: the sweep handles one agent at a time: a session is open only
\* between the lookup of the current agent and its close, it belongs to the
\* adapter of that agent, no adapter was made for an agent not yet reached,
\* and when the next adapter is about to be made every session is closed.
C24_SweepSequential ==
    /\ \A s \in DOMAIN sessions :
          ~sessions[s].closed => (sw_pc = "close" /\ sessions[s].owner = sw_ref)
    /\ \A s, t \in DOMAIN sessions :
          (~sessions[s].closed /\ ~sessions[t].closed) => s = t
    /\ Len(scrapers) <= sw_i
    /\ sw_pc = "check" => Len(scrapers) < sw_i
    /\ sw_pc \in {"lookup", "close", "act"} => sw_ref = Len(scrapers)

\* The second agent's lookup has returned: its session is open, the first
\* agent's session is closed.
C24_Witness ==
    /\ sw_pc = "close"
    /\ sw_i = 2
    /\ Len(scrapers) = 2
    /\ Len(sessions) = 2
    /\ sessions[1].closed /\ sessions[1].owner = 1
    /\ ~sessions[2].closed /\ sessions[2].owner = 2

\* C26: on every Result sequence, the selection of /verify returns a match
\* exactly when the sweep's test finds an active license.
C26_SameMatchDecision ==
    sel_done => (sel_match /= 0 <=> AnyActive(sel_results))

\* A sequence with an error sentinel and an active license of another line
\* than life: the second pass selects it, and the sweep's test holds.
C26_Witness ==
    /\ sel_done
    /\ Len(sel_results) = 2
    /\ sel_results[1].error /= None
    /\ sel_match = 2
    /\ ~FirstPassPick(sel_results[2])
    /\ AnyActive(sel_results)

\* C16: the check of one agent ends as 'ok', 'alert' or 'error', also for
\* a name of blanks only or of one word; it ends by raising only when the
\* lookup raised or, the lookup having returned, the database call failed.
C16_CheckYieldsOutcome ==
    \A i \in DOMAIN sw_log :
        \/ sw_log[i].result \in {"ok", "alert", "error"}
        \/ sw_log[i].lookup_raised
        \/ sw_log[i].looked_up

Raised(i) == sw_log[i].result = "raised"

\* What holds of the sweep at every moment: the history follows the batch
\* in order, one entry per agent, the counters count it, and a finished
\* sweep has been through the whole batch and has posted its summary.
SweepIsolated ==
    /\ Len(sw_log) <= Len(sw_agents)
    /\ \A i \in DOMAIN sw_log : sw_log[i].discord_id = sw_agents[i].discord_id
    /\ sw_count.errors = Cardinality({i \in DOMAIN sw_log : Raised(i)})
    /\ sw_count.checked = Cardinality({i \in DOMAIN sw_log : ~Raised(i)})
    /\ sw_pc = "check" => Len(sw_log) = sw_i - 1
    /\ (sw_pc \in {"summary", "done"} /\ sw_agents /= <<>>) =>
            Len(sw_log) = Len(sw_agents)
    /\ (sw_pc = "done" /\ sw_agents /= <<>>) => sw_summary = <<sw_count>>

\* C5: whichever agents' checks raise, each raise is caught and counted
\* as an error, every agent of the batch is checked exactly once in batch
\* order, and the sweep ends by posting its summary.
C5_SweepFaultIsolated ==
    /\ []SweepIsolated
    /\ (sw_pc = "check") ~> (sw_pc = "done" /\ sw_summary = <<sw_count>>)

\* The first agent's check raised, the second agent was checked all the
\* same, and the summary was posted.
C5_Witness ==
    /\ sw_pc = "done"
    /\ Len(sw_log) = 2
    /\ Raised(1) /\ ~Raised(2)
    /\ sw_summary = <<[checked |-> 1, alerts |-> 0, errors |-> 1]>>

\* How many agents of the sweep ended in one of these outcomes.
Ended(outcomes) == Cardinality({i \in DOMAIN sw_log : sw_log[i].result \in outcomes})

\* C30: the summary a sweep posts counts as errors the agents whose check
\* returned 'error' or raised, as alerts those classified 'alert', and as
\* checked those classified 'ok' or 'alert'.
C30_SummaryCountsOutcomes ==
    sw_pc = "done" =>
        \A k \in DOMAIN sw_summary :
            /\ sw_summary[k].errors = Ended({"error", "raised"})
            /\ sw_summary[k].alerts = Ended({"alert"})
            /\ sw_summary[k].checked = Ended({"ok", "alert"})

----------------------------------------------------------------------------
(* The /verify command (src/cogs/verify.py).                               *)

sfl == <<"f","l">>
sN == <<"N">>
pDigits == <<"5","-","5">>

\* What a caller may type for `state` and `phone`; NoText is "left out".
StateArgs == {NoText, sfl, sN}

PhoneArgs == {NoText, pDigits}

IsDigit(c) == c \in {"0","1","2","3","4","5","6","7","8","9"}

RECURSIVE Digits(_)
\* "".join(c for c in phone if c.isdigit())
Digits(s) ==
    IF s = <<>> THEN <<>>
    ELSE (IF IsDigit(Head(s)) THEN <<Head(s)>> ELSE <<>>) \o Digits(Tail(s))

\* Lines 64-68.
clean_phone(phone) ==
    LET d == Digits(phone)
    IN  IF Len(d) = 10 THEN <<"+", "1">> \o d
        ELSE IF Len(d) = 11 /\ Head(d) = "1" THEN <<"+">> \o d
        ELSE d

\* Lines 63-70: UPDATE ... SET phone_number = ? WHERE discord_id = ?
SavePhone(table, u, phone) ==
    IF TruthyText(phone) /\ clean_phone(phone) /= <<>> /\ table[u].exists
    THEN [table EXCEPT ![u].phone_number = clean_phone(phone)]
    ELSE table

\* Lines 48-50: the state argument, or the caller's stored home state.
StateOf(table, u, state) ==
    IF TruthyText(state) THEN state
    ELSE IF table[u].exists THEN table[u].home_state
    ELSE <<>>

\* Lines 94-105: UPDATE ... WHERE discord_id = ?
MarkVerified(table, u) ==
    IF table[u].exists
    THEN [table EXCEPT ![u].license_status = "licensed",
                       ![u].license_verified = 1,
                       ![u].last_license_check = TRUE]
    ELSE table

VfDone(u, resp) == vf' = [vf EXCEPT ![u].pc = "done", ![u].resp = resp]

\* verify_license up to get_scraper.
VerifyInvokeUpTo(u, callers) ==
    /\ vf[u].pc = "idle"
    /\ Cardinality({v \in Users : vf[v].pc /= "idle"}) < callers
    /\ \E state \in StateArgs, phone \in PhoneArgs :
         LET st == StateOf(db, u, state)
         IN  IF ~TruthyText(st) \/ Len(st) /= 2
             THEN /\ VfDone(u, "need_state")
                  /\ UNCHANGED <<db, scrapers>>
             ELSE LET code == Strip(Upper(st))
                      r == get_scraper(scrapers, scraper_map, code)
                  IN  /\ db' = SavePhone(db, u, phone)
                      /\ scrapers' = r.heap
                      /\ vf' = [vf EXCEPT ![u].pc = "lookup", ![u].state = code,
                                          ![u].ref = r.ref]
    /\ UNCHANGED <<checks, dms, sms, roles, sessions, scraper_map>>
    /\ UNCHANGED <<reg_vars, lk_vars, sel_vars, sw_vars>>

VerifyInvoke(u) == VerifyInvokeUpTo(u, MaxCallers)

\* results = await scraper.lookup_by_name(first_name, last_name)
VerifyLookup(u) ==
    /\ vf[u].pc = "lookup"
    /\ \/ \E used \in BOOLEAN :
            vf' = [vf EXCEPT ![u].pc = "close", ![u].out = Escaped(used)]
       \/ \E w \in FlowWorlds(scrapers[vf[u].ref].cls) :
            vf' = [vf EXCEPT ![u].pc = "close",
                             ![u].out = Lookup(scrapers[vf[u].ref], "name", w)]
    /\ scrapers' = Opened(vf'[u].out, vf[u].ref).scrapers
    /\ sessions' = Opened(vf'[u].out, vf[u].ref).sessions
    /\ UNCHANGED scraper_map
    /\ UNCHANGED <<reg_vars, lk_vars, sel_vars, store_vars, sw_vars>>

\* finally: await scraper.close(); an exception of the lookup then leaves
\* the command.
VerifyClose(u) ==
    /\ vf[u].pc = "close"
    /\ sessions' = close(scrapers, sessions, vf[u].ref)
    /\ IF vf[u].out.raised
       THEN VfDone(u, "raised")
       ELSE vf' = [vf EXCEPT ![u].pc = "act"]
    /\ UNCHANGED <<scrapers, scraper_map>>
    /\ UNCHANGED <<reg_vars, lk_vars, sel_vars, store_vars, sw_vars>>

\* A command that promotes on any found record.
VerifyAct_AnyFound(u) ==
    /\ vf[u].pc = "act"
    /\ LET results == vf[u].out.results
           match == FirstIndex(results, SecondPassPick_AnyFound)
       IN  IF match /= 0
           THEN /\ db' = MarkVerified(db, u)
                /\ checks' = log_check(checks, u, vf[u].state, "verified")
                /\ roles' = roles \cup {u}
                /\ sms' = IF db[u].exists /\ TruthyText(db[u].phone_number)
                          THEN Append(sms, [to |-> db[u].phone_number,
                                            status |-> "verified"])
                          ELSE sms
                /\ VfDone(u, "verified")
           ELSE IF results /= <<>> /\ Truthy(results[1].error)
           THEN VfDone(u, "lookup_error") /\ UNCHANGED <<db, checks, roles, sms>>
           ELSE VfDone(u, "not_verified") /\ UNCHANGED <<db, checks, roles, sms>>
    /\ UNCHANGED dms
    /\ UNCHANGED <<heap_vars, reg_vars, lk_vars, sel_vars, sw_vars>>

\* verify_license from line 79 on.
VerifyAct(u) ==
    /\ vf[u].pc = "act"
    /\ LET results == vf[u].out.results
           match == FindBestMatch(results)
       IN  IF match /= 0 /\ results[match].found /\ results[match].active
           THEN /\ db' = MarkVerified(db, u)
                /\ checks' = log_check(checks, u, vf[u].state, "verified")
                /\ roles' = roles \cup {u}
                /\ sms' = IF db[u].exists /\ TruthyText(db[u].phone_number)
                          THEN Append(sms, [to |-> db[u].phone_number,
                                            status |-> "verified"])
                          ELSE sms
                /\ VfDone(u, "verified")
           ELSE IF results /= <<>> /\ Truthy(results[1].error)
           THEN VfDone(u, "lookup_error") /\ UNCHANGED <<db, checks, roles, sms>>
           ELSE VfDone(u, "not_verified") /\ UNCHANGED <<db, checks, roles, sms>>
    /\ UNCHANGED dms
    /\ UNCHANGED <<heap_vars, reg_vars, lk_vars, sel_vars, sw_vars>>

VerifyNext ==
    \E u \in Users :
        VerifyInvoke(u) \/ VerifyLookup(u) \/ VerifyClose(u) \/ VerifyAct(u)

----------------------------------------------------------------------------
(* Spec: one sweep and the callers of /verify, interleaved at the awaits.  *)

Init == FlowInit

Next == SweepNext \/ VerifyNext

Spec == Init /\ [][Next]_vars

\* The flows that hold an adapter between its lookup and its close.
Closing(ref) ==
    \/ sw_pc = "close" /\ sw_ref = ref
    \/ \E u \in Users : vf[u].pc = "close" /\ vf[u].ref = ref

\* C4: in both flows the adapter taken from the registry is closed on every
\* way out of its lookup, before the flow acts on the results or lets the
\* exception go on: a session is open only while its flow stands between
\* the lookup and the close.
C4_ReleasedOnEveryExit ==
    \A s \in DOMAIN sessions :
        ~sessions[s].closed => Closing(sessions[s].owner)

\* A /verify whose lookup raised with a session open has ended, the sweep
\* has ended after a lookup that returned, and both sessions are closed.
C4_Witness ==
    /\ \E u \in Users :
         /\ vf[u].pc = "done" /\ vf[u].resp = "raised"
         /\ vf[u].out.session_used
         /\ sessions[scrapers[vf[u].ref].session].closed
    /\ sw_pc = "done"
    /\ \E i \in DOMAIN sw_log : sw_log[i].result = "ok"
    /\ Len(sessions) >= 2
    /\ \A s \in DOMAIN sessions : sessions[s].closed


\* The lookup of caller u returned and selection found no match in it.
NoMatch(u) ==
    /\ vf[u].pc = "done"
    /\ vf[u].resp \notin {"need_state", "raised"}
    /\ FindBestMatch(vf[u].out.results) = 0

\* C20: with no match, /verify answers with the lookup error when the first
\* Result carries an error message and with "could not verify" when it
\* carries none; never the other way round.
C20_ErrorToldApart ==
    \A u \in Users :
        NoMatch(u) =>
            IF vf[u].out.results /= <<>> /\ vf[u].out.results[1].error /= None
            THEN vf[u].resp = "lookup_error"
            ELSE vf[u].resp = "not_verified"


\* A step that promotes user u: the row turns licensed or verified, the
\* role is given, a 'verified' check is logged or the success answer sent.
Promotes(u) ==
    \/ /\ db'[u].exists
       /\ \/ db'[u].license_status /= db[u].license_status
          \/ db'[u].license_verified /= db[u].license_verified
    \/ u \in roles' /\ u \notin roles
    \/ /\ Len(checks') = Len(checks) + 1
       /\ checks'[Len(checks')].agent_discord_id = u
       /\ checks'[Len(checks')].status = "verified"
    \/ vf'[u].resp = "verified" /\ vf[u].resp /= "verified"

\* A step of the command of user u that does not end in the success answer
\* writes at most the phone number of u's row.
WritesPhoneOnly(u) ==
    (vf'[u] /= vf[u] /\ vf'[u].resp /= "verified") =>
        /\ db' = [db EXCEPT ![u] = db'[u]]
        /\ db[u].exists => db' = [db EXCEPT ![u].phone_number = db'[u].phone_number]
        /\ ~db[u].exists => db' = db
        /\ checks' = checks
        /\ roles' = roles

\* C28: a user is promoted only by the step of their own command that acts
\* on a lookup holding a found and active Result; on the other ways out of
\* the command nothing but the phone number is written, no check is logged
\* and no role changes.
C28_PromoteOnEvidence ==
    [][\A u \in Users :
          /\ Promotes(u) => (vf[u].pc = "act" /\ AnyActive(vf[u].out.results))
          /\ WritesPhoneOnly(u)]_vars

\* A caller was promoted on an active record: the row, the role and the
\* check log show it.
C28_Witness ==
    \E u \in Users :
        /\ vf[u].pc = "done" /\ vf[u].resp = "verified"
        /\ AnyActive(vf[u].out.results)
        /\ db[u].exists /\ db[u].license_verified = 1
        /\ u \in roles
        /\ \E i \in DOMAIN checks :
              checks[i].agent_discord_id = u /\ checks[i].status = "verified"

\* C29: a user who was told of a successful verification has an agent row
\* with license_status 'licensed' and license_verified 1.
C29_VerifiedIsRecorded ==
    \A u \in Users :
        vf[u].resp = "verified" =>
            /\ db[u].exists
            /\ db[u].license_status = "licensed"
            /\ db[u].license_verified = 1

----------------------------------------------------------------------------
(* SpecTogether: one sweep and several callers of /verify at once; the    *)
(* first user is a monitored agent of Florida, the others have no row.    *)

TogetherInit ==
    /\ FlowInit
    /\ db = [u \in Users |-> IF u = 1 THEN Row(nAnnLee, FL, pPhone, "licensed")
                                       ELSE NoRow]

TogetherNext ==
    \/ SweepNext
    \/ \E u \in Users :
          \/ VerifyInvokeUpTo(u, MaxTogether)
          \/ VerifyLookup(u)
          \/ VerifyClose(u)
          \/ VerifyAct(u)

SpecTogether == TogetherInit /\ [][TogetherNext]_vars

\* The checks that hold an adapter: between get_scraper and the close.
SweepHolds == sw_pc \in {"lookup", "close"}

CallerHolds(u) == vf[u].pc \in {"lookup", "close"}

\* No two checks hold the same adapter, no two adapters the same session,
\* and the session of a check whose lookup returned is still open.
Exclusive ==
    /\ \A u \in Users : (SweepHolds /\ CallerHolds(u)) => vf[u].ref /= sw_ref
    /\ \A u, v \in Users :
          (u /= v /\ CallerHolds(u) /\ CallerHolds(v)) => vf[u].ref /= vf[v].ref
    /\ \A r, t \in DOMAIN scrapers :
          (r /= t /\ scrapers[r].session /= 0) =>
              scrapers[r].session /= scrapers[t].session
    /\ \A x \in DOMAIN sessions : scrapers[sessions[x].owner].session = x
    /\ (sw_pc = "close" /\ sw_out.session_used) =>
          ~sessions[scrapers[sw_ref].session].closed
    /\ \A u \in Users :
          (vf[u].pc = "close" /\ vf[u].out.session_used) =>
              ~sessions[scrapers[vf[u].ref].session].closed

\* A step that closes a session is the close of the check that holds the
\* adapter the session was made by.
ReleasedByOwner ==
    \A x \in DOMAIN sessions :
        (~sessions[x].closed /\ sessions'[x].closed) =>
            \/ sw_pc = "close" /\ sw_ref = sessions[x].owner /\ sw_pc' /= "close"
            \/ \E u \in Users :
                  /\ vf[u].pc = "close" /\ vf[u].ref = sessions[x].owner
                  /\ vf'[u].pc /= "close"

\* C25: under every interleaving of the sweep and the callers of /verify,
\* each check in flight has an adapter and a session of its own, and a
\* session is closed only by the check that made it.
C25_ExclusiveOwnership == []Exclusive /\ [][ReleasedByOwner]_vars

\* The sweep and two callers each stand between lookup and close, with
\* three adapters and three open sessions.
C25_Witness ==
    /\ sw_pc = "close" /\ sw_out.session_used
    /\ \A u \in Users : vf[u].pc = "close" /\ vf[u].out.session_used
    /\ Cardinality({sw_ref} \cup {vf[u].ref : u \in Users}) = 1 + MaxUsers
    /\ Cardinality({x \in DOMAIN sessions : ~sessions[x].closed}) = 1 + MaxUsers

====
